---- MODULE Spec2Model ----
(***************************************************************************)
(* Model of the gemini-chat edge function                                  *)
(* (supabase/functions/gemini-chat/index.ts, the handler passed to serve). *)
(*                                                                         *)
(* A text is a sequence of one-character strings, so that toLowerCase,     *)
(* includes and trim are computed character by character.  The long        *)
(* literals of the source are abbreviated to a distinctive excerpt.        *)
(* A JSON value is a record [t, s, a]: its type tag, its characters when   *)
(* it is a string, its elements when it is an array.                       *)
(***************************************************************************)
EXTENDS Integers, Sequences, FiniteSets, TLC

(* ------------------------------ bounds --------------------------------- *)

\* calls of handleSendMessage of ChatBot followed through, the pending
\* timers of quick questions counted in
MaxSends == 2

\* the same count in the behaviours followed under fairness
MaxLiveSends == 1

\* toggles of FavoriteButton in flight
MaxToggles == 2

\* longest free-form tail of a messages array (after the generated head)
MaxTail == 2

\* most words in a message handed to getFallbackResponse on its own
MaxWords == 2

(* ------------------------- program constants --------------------------- *)

\* messages.slice(-10)
SliceLimit == 10

\* status of the 405 answer
StatusMethodNotAllowed == 405

\* status of the 'Invalid messages format' answer
StatusBadRequest == 400

\* status of every other answer (explicit 200, or the Response default)
StatusOk == 200

\* the placeholder value of the credential
Placeholder == "your_actual_gemini_api_key_here"

\* Deno.env.get returns undefined for an unset variable
Unset == "<undefined>"

\* newMessages.slice(-10) of ChatBot.handleSendMessage
RecentLimit == 10

\* min and max of the number-of-people input of BookingModal
MinPeople == 1

MaxPeople == 20

(* ------------------------------ texts ---------------------------------- *)

Whitespace == {" ", "\n", "\t"}

UpperCase == <<"A","B","C","D","E","F","G","H","I","J","K","L","M",
               "N","O","P","Q","R","S","T","U","V","W","X","Y","Z">>

LowerCase == <<"a","b","c","d","e","f","g","h","i","j","k","l","m",
               "n","o","p","q","r","s","t","u","v","w","x","y","z">>

\* String.prototype.toLowerCase on one character
LowerChar(c) ==
    IF \E i \in 1..26 : UpperCase[i] = c
    THEN LowerCase[CHOOSE i \in 1..26 : UpperCase[i] = c]
    ELSE c

\* String.prototype.toLowerCase
toLowerCase(s) == [i \in 1..Len(s) |-> LowerChar(s[i])]

\* String.prototype.includes
includes(s, k) ==
    \E i \in 0..(Len(s) - Len(k)) : SubSeq(s, i + 1, i + Len(k)) = k

\* String.prototype.trim
trim(s) ==
    LET keep == {i \in 1..Len(s) : s[i] \notin Whitespace}
    IN  IF keep = {} THEN <<>>
        ELSE SubSeq(s, CHOOSE i \in keep : \A j \in keep : i <= j,
                       CHOOSE i \in keep : \A j \in keep : j <= i)

\* the answers of getFallbackResponse (excerpts)
BeachAnswer == <<"T","a","r","k","a","r","l","i"," ","B","e","a","c","h"," ","i","s"," ","f","a","m","o","u","s">>

FoodAnswer == <<"M","a","l","v","a","n","i"," ","c","u","i","s","i","n","e"," ","i","s"," ","a"," ","t","r","e","a","t">>

FortAnswer == <<"S","i","n","d","h","u","d","u","r","g"," ","F","o","r","t"," ","i","s"," ","a"," ","s","e","a"," ","f","o","r","t">>

SeasonAnswer == <<"T","h","e"," ","b","e","s","t"," ","t","i","m","e"," ","t","o"," ","v","i","s","i","t">>

GenericAnswer == <<"I","'","m"," ","h","a","v","i","n","g"," ","t","r","o","u","b","l","e"," ","c","o","n","n","e","c","t","i","n","g">>

\* the response text of the catch block (excerpt)
TechnicalDifficulties == <<"t","e","c","h","n","i","c","a","l"," ","d","i","f","f","i","c","u","l","t","i","e","s">>

\* the response text of the credential check (excerpt)
NotConfigured == <<"n","o","t"," ","p","r","o","p","e","r","l","y"," ","c","o","n","f","i","g","u","r","e","d">>

\* the three parts of the systemPrompt template (excerpts)
PersonaText == <<"Y","o","u"," ","a","r","e"," ","K","o","n","k","a","n","B","o","t">>

LocationPrefix == <<"T","h","e"," ","u","s","e","r"," ","i","s"," ","c","u","r","r","e","n","t","l","y"," ","l","o","c","a","t","e","d"," ","i","n",":"," ">>

ClosingText == <<"R","e","s","p","o","n","d"," ","i","n"," ","a"," ","f","r","i","e","n","d","l","y"," ","m","a","n","n","e","r">>

\* the fixed model greeting that follows the system prompt (excerpt)
GreetingText == <<"N","a","m","a","s","t","e","!"," ","I","'","m"," ","K","o","n","k","a","n","B","o","t">>

\* getFallbackResponse without its final return: no keyword, empty answer
getFallbackResponseNoDefault(userMessage) ==
    LET lowerMessage == toLowerCase(userMessage)
    IN  IF \/ includes(lowerMessage, <<"b","e","a","c","h">>)
           \/ includes(lowerMessage, <<"t","a","r","k","a","r","l","i">>)
           \/ includes(lowerMessage, <<"m","a","l","v","a","n">>)
        THEN BeachAnswer
        ELSE IF \/ includes(lowerMessage, <<"f","o","o","d">>)
                \/ includes(lowerMessage, <<"c","u","i","s","i","n","e">>)
                \/ includes(lowerMessage, <<"m","a","l","v","a","n","i">>)
        THEN FoodAnswer
        ELSE IF \/ includes(lowerMessage, <<"f","o","r","t">>)
                \/ includes(lowerMessage, <<"s","i","n","d","h","u","d","u","r","g">>)
                \/ includes(lowerMessage, <<"h","i","s","t","o","r","y">>)
        THEN FortAnswer
        ELSE IF \/ includes(lowerMessage, <<"t","i","m","e">>)
                \/ includes(lowerMessage, <<"w","h","e","n">>)
                \/ includes(lowerMessage, <<"s","e","a","s","o","n">>)
        THEN SeasonAnswer
        ELSE <<>>

\* getFallbackResponse with the food group tested before the beach group
getFallbackResponseFoodFirst(userMessage) ==
    LET lowerMessage == toLowerCase(userMessage)
    IN  IF \/ includes(lowerMessage, <<"f","o","o","d">>)
           \/ includes(lowerMessage, <<"c","u","i","s","i","n","e">>)
           \/ includes(lowerMessage, <<"m","a","l","v","a","n","i">>)
        THEN FoodAnswer
        ELSE IF \/ includes(lowerMessage, <<"b","e","a","c","h">>)
                \/ includes(lowerMessage, <<"t","a","r","k","a","r","l","i">>)
                \/ includes(lowerMessage, <<"m","a","l","v","a","n">>)
        THEN BeachAnswer
        ELSE IF \/ includes(lowerMessage, <<"f","o","r","t">>)
                \/ includes(lowerMessage, <<"s","i","n","d","h","u","d","u","r","g">>)
                \/ includes(lowerMessage, <<"h","i","s","t","o","r","y">>)
        THEN FortAnswer
        ELSE IF \/ includes(lowerMessage, <<"t","i","m","e">>)
                \/ includes(lowerMessage, <<"w","h","e","n">>)
                \/ includes(lowerMessage, <<"s","e","a","s","o","n">>)
        THEN SeasonAnswer
        ELSE GenericAnswer

\* function getFallbackResponse(userMessage: string): string
getFallbackResponse(userMessage) ==
    LET lowerMessage == toLowerCase(userMessage)
    IN  IF \/ includes(lowerMessage, <<"b","e","a","c","h">>)
           \/ includes(lowerMessage, <<"t","a","r","k","a","r","l","i">>)
           \/ includes(lowerMessage, <<"m","a","l","v","a","n">>)
        THEN BeachAnswer
        ELSE IF \/ includes(lowerMessage, <<"f","o","o","d">>)
                \/ includes(lowerMessage, <<"c","u","i","s","i","n","e">>)
                \/ includes(lowerMessage, <<"m","a","l","v","a","n","i">>)
        THEN FoodAnswer
        ELSE IF \/ includes(lowerMessage, <<"f","o","r","t">>)
                \/ includes(lowerMessage, <<"s","i","n","d","h","u","d","u","r","g">>)
                \/ includes(lowerMessage, <<"h","i","s","t","o","r","y">>)
        THEN FortAnswer
        ELSE IF \/ includes(lowerMessage, <<"t","i","m","e">>)
                \/ includes(lowerMessage, <<"w","h","e","n">>)
                \/ includes(lowerMessage, <<"s","e","a","s","o","n">>)
        THEN SeasonAnswer
        ELSE GenericAnswer

(* --------------------------- JSON values ------------------------------- *)

JUndefined == [t |-> "undefined", s |-> <<>>, a |-> <<>>]

JNull == [t |-> "null", s |-> <<>>, a |-> <<>>]

JString(str) == [t |-> "string", s |-> str, a |-> <<>>]

JArray(arr) == [t |-> "array", s |-> <<>>, a |-> arr]

\* a JSON number, kept as the text a template literal renders it to
JNumber(str) == [t |-> "number", s |-> str, a |-> <<>>]

\* interface ChatMessage; isNull marks an array element that is JSON null
ChatMessage(r, c) == [isNull |-> FALSE, role |-> r, content |-> c]

NullElement == [isNull |-> TRUE, role |-> "", content |-> <<>>]

\* JavaScript truthiness of a JSON value
Truthy(v) == \/ v.t = "array"
             \/ v.t = "string" /\ v.s # <<>>
             \/ v.t = "number" /\ v.s # <<"0">>

(* ----------------------- the inputs of the model ----------------------- *)

Digits == <<"0","1","2","3","4","5","6","7","8","9">>

\* the i-th turn of a generated conversation: user and assistant alternate,
\* and the content names the position
HeadTurn(i) ==
    ChatMessage(IF i % 2 = 1 THEN "user" ELSE "assistant",
                <<"m", Digits[(i \div 10) + 1], Digits[(i % 10) + 1]>>)

Conversation(k) == [i \in 1..k |-> HeadTurn(i)]

\* lengths of the generated heads: none, and around the slice limit
HeadLens == {0, SliceLimit - 2, SliceLimit - 1, SliceLimit}

TailRoles == {"user", "assistant", "system"}

TailContents == {<<>>, <<"H","i">>, <<"T","A","R","K","A","R","L","I","?">>}

TailElements ==
    {ChatMessage(r, c) : r \in TailRoles, c \in TailContents} \cup {NullElement}

Tails == UNION {[1..n -> TailElements] : n \in 0..MaxTail}

\* the generated heads, also with a null element in front of them
Heads == {Conversation(k) : k \in HeadLens}
            \cup {<<NullElement>> \o Conversation(k) : k \in HeadLens}

MessageArrays == {hd \o tl : hd \in Heads, tl \in Tails}

\* what the messages property of the body can be
MessagesValues ==
    {JUndefined, JNull, JString(<<>>), JString(<<"H","i">>)}
        \cup {JArray(arr) : arr \in MessageArrays}

\* what the userLocation property of the body can be
LocationValues == {JUndefined, JString(<<>>), JString(<<"P","u","n","e">>),
                   JNumber(<<"5">>)}

\* a request body: "invalid" is a missing or unparseable body, "null" the
\* JSON null, "scalar" any other JSON value that is not an object
Body(k, m, l) == [kind |-> k, messages |-> m, userLocation |-> l]

NonObjectBodies == {Body(k, JUndefined, JUndefined) : k \in {"invalid", "null", "scalar"}}

ObjectBodies == {Body("object", m, l) : m \in MessagesValues, l \in LocationValues}

ProbeBodies == NonObjectBodies \cup
    {Body("object", JArray(<<ChatMessage("user", <<"H","i">>)>>), JUndefined)}

Requests ==
    {[method |-> "POST", body |-> b] : b \in NonObjectBodies \cup ObjectBodies}
        \cup {[method |-> m, body |-> b] : m \in {"OPTIONS", "GET", "PUT"}, b \in ProbeBodies}

Keys == {Unset, "", Placeholder, "AIza-key"}

\* what the fetch of the upstream API can come to: the promise rejects, or
\* it resolves to a reply with a status, a body text and, when that body is
\* JSON, a shape
Reply(k, st, et, sh, tx) ==
    [kind |-> k, status |-> st, errorText |-> et, shape |-> sh, text |-> tx]

Shapes == {"notjson", "nocandidates", "emptycandidates", "nocontent",
           "noparts", "emptyparts", "notext"}

ReplyTexts == {<<>>, <<" ","\n">>, <<" ","H","i"," ">>,
               <<"H","e","l","l","o"," ","f","r","o","m"," ","G","e","m","i","n","i">>}

Outcomes ==
    {Reply("reject", 0, "", "none", <<>>)}
        \cup {Reply("http", st, et, "none", <<>>) :
                st \in {404, 500}, et \in {"", "quota exceeded"}}
        \cup {Reply("http", 500, "", "unreadable", <<>>)}
        \cup {Reply("http", 200, "", sh, <<>>) : sh \in Shapes}
        \cup {Reply("http", 200, "", "text", tx) : tx \in ReplyTexts}

NoOutcome == Reply("none", 0, "", "none", <<>>)

\* Response.ok
Ok(o) == o.status >= 200 /\ o.status <= 299

(* ----------------------------- responses ------------------------------- *)

\* corsHeaders without the Access-Control-Allow-Methods entry
corsHeadersNoMethods ==
    {<<"Access-Control-Allow-Origin", "*">>,
     <<"Access-Control-Allow-Headers", "authorization, x-client-info, apikey, content-type">>}

\* const corsHeaders
corsHeaders ==
    {<<"Access-Control-Allow-Origin", "*">>,
     <<"Access-Control-Allow-Headers", "authorization, x-client-info, apikey, content-type">>,
     <<"Access-Control-Allow-Methods", "POST, OPTIONS">>}

\* { ...corsHeaders, 'Content-Type': 'application/json' }
jsonHeaders == corsHeaders \cup {<<"Content-Type", "application/json">>}

\* new Response(body, {status, headers}): fields is the set of keys of the
\* JSON body, cors tells that the headers spread corsHeaders; the answer
\* without body carries corsHeaders alone, every JSON body the content type
Response(st, hb, fs, er, rs, dt, sc) ==
    [status |-> st, cors |-> TRUE,
     headers |-> IF hb THEN jsonHeaders ELSE corsHeaders,
     hasBody |-> hb, fields |-> fs,
     error |-> er, response |-> rs, details |-> dt, success |-> sc]

NoResponse ==
    [status |-> 0, cors |-> FALSE, headers |-> {}, hasBody |-> FALSE, fields |-> {},
     error |-> "", response |-> <<>>, details |-> "", success |-> FALSE]

\* the catch block answering with status 500
CatchResponse500(message) ==
    Response(500, TRUE, {"error", "response", "details"},
             "Internal server error", TechnicalDifficulties, message, FALSE)

\* the answer of the catch block for an error with the given message
CatchResponse(message) ==
    Response(StatusOk, TRUE, {"error", "response", "details"},
             "Internal server error", TechnicalDifficulties, message, FALSE)

(* ------------------------------- state --------------------------------- *)

VARIABLES
    GEMINI_API_KEY,   \* the environment variable of the deployment
    pc,               \* where the handler is: idle, received, fetch, responded
    req,              \* the request being handled
    bodyRead,         \* req.json() was called
    keyRead,          \* Deno.env.get('GEMINI_API_KEY') was called
    fetchCalls,       \* calls of fetch made for this request
    requestPayload,   \* the body sent with the fetch
    upstream,         \* what the fetch came to
    resp,             \* the Response returned
    fallbackArg,      \* getFallbackResponse called on its own: the argument
    fallbackResponse, \* getFallbackResponse called on its own: the result
    chatMessages,     \* ChatBot: the state messages
    inputMessage,     \* ChatBot: the state inputMessage
    chatIsLoading,    \* ChatBot: the state isLoading
    connectionStatus, \* ChatBot: the state connectionStatus
    sends,            \* ChatBot: the calls of handleSendMessage that passed the guard
    timers,           \* ChatBot: the pending setTimeout callbacks, each with its render
    lastToast,        \* the title of the last toast shown
    mounted,          \* which of BookingModal, ReviewModal, FavoriteButton is observed
    packageData,      \* the prop packageData (packageId, packageType for FavoriteButton)
    isOpen,           \* the prop isOpen of the modal
    bookingDate,      \* BookingModal: state
    numberOfPeople,   \* BookingModal: state
    contactPhone,     \* BookingModal: state
    contactEmail,     \* BookingModal: state
    specialRequests,  \* BookingModal: state
    bookingIsSubmitting, \* BookingModal: the state isSubmitting
    bookingOp,        \* BookingModal: the call of handleSubmit in flight
    rating,           \* ReviewModal: state
    title,            \* ReviewModal: state
    comment,          \* ReviewModal: state
    reviewIsSubmitting,  \* ReviewModal: the state isSubmitting
    reviewOp,         \* ReviewModal: the call of handleSubmit in flight
    isFavorite,       \* FavoriteButton: state
    favoriteIsLoading,   \* FavoriteButton: the state isLoading
    favoriteOps,      \* FavoriteButton: the calls of toggleFavorite in flight
    favoriteCheck     \* FavoriteButton: where checkFavoriteStatus is

\* the state of the edge function
handlerVars == <<GEMINI_API_KEY, pc, req, bodyRead, keyRead, fetchCalls,
                 requestPayload, upstream, resp>>

\* the state of a stand-alone call of getFallbackResponse
fallbackVars == <<fallbackArg, fallbackResponse>>

\* the state of the ChatBot page
chatVars == <<chatMessages, inputMessage, chatIsLoading, connectionStatus, sends,
              timers>>

\* the state of BookingModal
bookingVars == <<bookingDate, numberOfPeople, contactPhone, contactEmail,
                 specialRequests, bookingIsSubmitting, bookingOp>>

\* the state of ReviewModal
reviewVars == <<rating, title, comment, reviewIsSubmitting, reviewOp>>

\* the state of FavoriteButton
favoriteVars == <<isFavorite, favoriteIsLoading, favoriteOps, favoriteCheck>>

\* the state of the three components that write rows, and their props
formVars == <<mounted, packageData, isOpen, bookingVars, reviewVars, favoriteVars>>

\* everything a step of the edge function leaves alone
outsideHandler == <<fallbackVars, chatVars, lastToast, formVars>>

vars == <<handlerVars, fallbackVars, chatVars, lastToast, formVars>>

\* generationConfig of requestPayload; 0.7 and 0.95 as fractions
generationConfig ==
    [temperature |-> <<7, 10>>, topK |-> 40, topP |-> <<95, 100>>,
     maxOutputTokens |-> 1024]

\* safetySettings of requestPayload
safetySettings ==
    <<[category |-> "HARM_CATEGORY_HARASSMENT", threshold |-> "BLOCK_MEDIUM_AND_ABOVE"],
      [category |-> "HARM_CATEGORY_HATE_SPEECH", threshold |-> "BLOCK_MEDIUM_AND_ABOVE"],
      [category |-> "HARM_CATEGORY_SEXUALLY_EXPLICIT", threshold |-> "BLOCK_MEDIUM_AND_ABOVE"],
      [category |-> "HARM_CATEGORY_DANGEROUS_CONTENT", threshold |-> "BLOCK_MEDIUM_AND_ABOVE"]>>

\* no fetch made yet
NoPayload ==
    [contents |-> <<>>,
     generationConfig |-> [temperature |-> <<0, 1>>, topK |-> 0, topP |-> <<0, 1>>,
                           maxOutputTokens |-> 0],
     safetySettings |-> <<>>]

NoRequest == [method |-> "", body |-> Body("invalid", JUndefined, JUndefined)]

\* no call of getFallbackResponse on its own
NoCall == <<"-">>

\* a message of the ChatBot page; id and timestamp are left out
Message(r, c, e) == [role |-> r, content |-> c, error |-> e]

\* the content of the initial assistant message of ChatBot (excerpt)
ChatGreeting == <<"N","a","m","a","s","t","e","!"," ","I","'","m"," ","K","o","n","k","a","n","B","o","t",","," ","y","o","u","r"," ","A","I"," ","t","r","a","v","e","l"," ","g","u","i","d","e">>

\* the content of errorMessage in handleSendMessage (excerpt); the literal is
\* the one of the catch block of the edge function
ChatErrorText == <<"t","e","c","h","n","i","c","a","l"," ","d","i","f","f","i","c","u","l","t","i","e","s">>

\* no invoke awaited
NoInvoke ==
    [rejects |-> FALSE, error |-> FALSE, data |-> "none", dataError |-> FALSE,
     response |-> JUndefined]

\* nobody is logged in: getUser resolves with user null
NoUser == "<no user>"

\* the ChatBot page after mounting
InitChat ==
    /\ chatMessages = <<Message("assistant", ChatGreeting, FALSE)>>
    /\ inputMessage = <<>>
    /\ chatIsLoading = FALSE
    /\ connectionStatus = "checking"
    /\ sends = <<>>
    /\ timers = <<>>

\* no call in flight: where it is, the render it belongs to, the user that
\* getUser returned and the row it sends
NoOp ==
    [pc |-> "idle", render |-> [status |-> "none"], user |-> NoUser,
     row |-> [status |-> "none"]]

\* BookingModal as useState leaves it
InitBooking ==
    /\ bookingDate = ""
    /\ numberOfPeople = 1
    /\ contactPhone = ""
    /\ contactEmail = ""
    /\ specialRequests = ""
    /\ bookingIsSubmitting = FALSE
    /\ bookingOp = NoOp

\* ReviewModal as useState leaves it
InitReview ==
    /\ rating = 5
    /\ title = ""
    /\ comment = ""
    /\ reviewIsSubmitting = FALSE
    /\ reviewOp = NoOp

\* FavoriteButton as useState leaves it, checkFavoriteStatus not yet called
InitFavorite ==
    /\ isFavorite = FALSE
    /\ favoriteIsLoading = FALSE
    /\ favoriteOps = <<>>
    /\ favoriteCheck = NoOp

\* no package shown
NoPackage == [id |-> "", price |-> 0, type |-> ""]

\* none of the three components is on the page
InitFormsUnmounted ==
    /\ mounted = "none"
    /\ packageData = NoPackage
    /\ isOpen = FALSE
    /\ InitBooking
    /\ InitReview
    /\ InitFavorite

\* the other components as they are while the edge function is observed
InitOutsideHandler ==
    /\ fallbackArg = NoCall
    /\ fallbackResponse = NoCall
    /\ InitChat
    /\ lastToast = ""
    /\ InitFormsUnmounted

\* the edge function between two requests
InitHandler ==
    /\ pc = "idle"
    /\ req = NoRequest
    /\ bodyRead = FALSE
    /\ keyRead = FALSE
    /\ fetchCalls = 0
    /\ requestPayload = NoPayload
    /\ upstream = NoOutcome
    /\ resp = NoResponse

Init ==
    /\ GEMINI_API_KEY \in Keys
    /\ InitHandler
    /\ InitOutsideHandler

(* ------------------------- the handler's steps ------------------------- *)

\* slice(-n) off by one: keeps n + 1 elements
SliceLastOffByOne(arr, n) ==
    IF Len(arr) <= n + 1 THEN arr ELSE SubSeq(arr, Len(arr) - n, Len(arr))

\* Array.prototype.slice(-n)
SliceLast(arr, n) ==
    IF Len(arr) <= n THEN arr ELSE SubSeq(arr, Len(arr) - n + 1, Len(arr))

\* const { messages, userLocation } = requestBody throws for null
Destructurable(b) == b.kind \in {"scalar", "object"}

\* !messages || !Array.isArray(messages)
InvalidMessagesFormat(m) == ~Truthy(m) \/ m.t # "array"

\* the credential check without the placeholder comparison
KeyMissingNoPlaceholder(k) == k = Unset \/ k = ""

\* !GEMINI_API_KEY || GEMINI_API_KEY === 'your_actual_gemini_api_key_here'
KeyMissing(k) == k = Unset \/ k = "" \/ k = Placeholder

\* systemPrompt with the location clause interpolated unconditionally
systemPromptAlwaysLocation(userLocation) ==
    PersonaText \o LocationPrefix \o userLocation.s \o ClosingText

\* the template literal systemPrompt
systemPrompt(userLocation) ==
    PersonaText
        \o (IF Truthy(userLocation) THEN LocationPrefix \o userLocation.s ELSE <<>>)
        \o ClosingText

\* const recentMessages = messages.slice(-10)
recentMessages(messages) == SliceLast(messages, SliceLimit)

\* the role mapping run over messages instead of recentMessages
RoleMappingThrowsOnAll(messages) ==
    \E i \in 1..Len(messages) : messages[i].isNull

\* msg.role on a null element throws a TypeError
RoleMappingThrows(messages) ==
    \E i \in 1..Len(recentMessages(messages)) : recentMessages(messages)[i].isNull

\* role: msg.role === 'user' ? 'user' : 'model'
GeminiRole(role) == IF role = "user" THEN "user" ELSE "model"

\* geminiMessages after the forEach over recentMessages
geminiMessages(messages, userLocation) ==
    LET recent == recentMessages(messages)
    IN  <<[role |-> "user", text |-> systemPrompt(userLocation)],
          [role |-> "model", text |-> GreetingText]>>
            \o [i \in 1..Len(recent) |->
                  [role |-> GeminiRole(recent[i].role), text |-> recent[i].content]]

\* messages[messages.length - 1]?.content || ''
LastContent(messages) ==
    IF Len(messages) = 0 \/ messages[Len(messages)].isNull
    THEN <<>>
    ELSE messages[Len(messages)].content

\* a request arrives at the handler
Arrive ==
    /\ pc = "idle"
    /\ \E r \in Requests : req' = r
    /\ pc' = "received"
    /\ UNCHANGED <<GEMINI_API_KEY, bodyRead, keyRead, fetchCalls,
                   requestPayload, upstream, resp>>
    /\ UNCHANGED outsideHandler

\* if (req.method === 'OPTIONS') return new Response(null, {headers: corsHeaders})
Preflight ==
    /\ pc = "received"
    /\ req.method = "OPTIONS"
    /\ resp' = Response(StatusOk, FALSE, {}, "", <<>>, "", FALSE)
    /\ pc' = "responded"
    /\ UNCHANGED <<GEMINI_API_KEY, req, bodyRead, keyRead, fetchCalls,
                   requestPayload, upstream>>
    /\ UNCHANGED outsideHandler

\* the method check placed after the body was read
MethodCheckAfterBodyRead ==
    /\ pc = "received"
    /\ req.method # "OPTIONS"
    /\ req.method # "POST"
    /\ bodyRead' = TRUE
    /\ resp' = Response(StatusMethodNotAllowed, TRUE, {"error"},
                        "Method not allowed", <<>>, "", FALSE)
    /\ pc' = "responded"
    /\ UNCHANGED <<GEMINI_API_KEY, req, keyRead, fetchCalls,
                   requestPayload, upstream>>
    /\ UNCHANGED outsideHandler

\* if (req.method !== 'POST') return 405
MethodNotAllowed ==
    /\ pc = "received"
    /\ req.method # "OPTIONS"
    /\ req.method # "POST"
    /\ resp' = Response(StatusMethodNotAllowed, TRUE, {"error"},
                        "Method not allowed", <<>>, "", FALSE)
    /\ pc' = "responded"
    /\ UNCHANGED <<GEMINI_API_KEY, req, bodyRead, keyRead, fetchCalls,
                   requestPayload, upstream>>
    /\ UNCHANGED outsideHandler

\* req.json() awaited outside the try block: the error leaves the handler
\* and the server answers 500 without a JSON body
BodyParseErrorUncaught ==
    /\ pc = "received"
    /\ req.method = "POST"
    /\ ~(req.body.kind \in {"scalar", "object"})
    /\ bodyRead' = TRUE
    /\ resp' = Response(500, FALSE, {}, "", <<>>, "", FALSE)
    /\ pc' = "responded"
    /\ UNCHANGED <<GEMINI_API_KEY, req, keyRead, fetchCalls,
                   requestPayload, upstream>>
    /\ UNCHANGED outsideHandler

\* await req.json() rejects, or the destructuring of null throws: catch
BodyParseError ==
    /\ pc = "received"
    /\ req.method = "POST"
    /\ ~Destructurable(req.body)
    /\ bodyRead' = TRUE
    /\ resp' = CatchResponse(IF req.body.kind = "invalid"
                             THEN "Unexpected end of JSON input"
                             ELSE "Cannot destructure property 'messages' of null")
    /\ pc' = "responded"
    /\ UNCHANGED <<GEMINI_API_KEY, req, keyRead, fetchCalls,
                   requestPayload, upstream>>
    /\ UNCHANGED outsideHandler

\* if (!messages || !Array.isArray(messages)) return 400
InvalidMessages ==
    /\ pc = "received"
    /\ req.method = "POST"
    /\ Destructurable(req.body)
    /\ InvalidMessagesFormat(req.body.messages)
    /\ bodyRead' = TRUE
    /\ resp' = Response(StatusBadRequest, TRUE, {"error"},
                        "Invalid messages format", <<>>, "", FALSE)
    /\ pc' = "responded"
    /\ UNCHANGED <<GEMINI_API_KEY, req, keyRead, fetchCalls,
                   requestPayload, upstream>>
    /\ UNCHANGED outsideHandler

\* the credential check answers with the 'not properly configured' apology
KeyNotConfigured ==
    /\ pc = "received"
    /\ req.method = "POST"
    /\ Destructurable(req.body)
    /\ ~InvalidMessagesFormat(req.body.messages)
    /\ KeyMissing(GEMINI_API_KEY)
    /\ bodyRead' = TRUE
    /\ keyRead' = TRUE
    /\ resp' = Response(StatusOk, TRUE, {"error", "response"},
                        "Gemini API key not configured. Please add your API key to the .env file.",
                        NotConfigured, "", FALSE)
    /\ pc' = "responded"
    /\ UNCHANGED <<GEMINI_API_KEY, req, fetchCalls, requestPayload, upstream>>
    /\ UNCHANGED outsideHandler

\* recentMessages.forEach throws on a null element: catch
PromptAssemblyThrows ==
    /\ pc = "received"
    /\ req.method = "POST"
    /\ Destructurable(req.body)
    /\ ~InvalidMessagesFormat(req.body.messages)
    /\ ~KeyMissing(GEMINI_API_KEY)
    /\ RoleMappingThrows(req.body.messages.a)
    /\ bodyRead' = TRUE
    /\ keyRead' = TRUE
    /\ resp' = CatchResponse("Cannot read properties of null (reading 'role')")
    /\ pc' = "responded"
    /\ UNCHANGED <<GEMINI_API_KEY, req, fetchCalls, requestPayload, upstream>>
    /\ UNCHANGED outsideHandler

\* const geminiResponse = await fetch(geminiUrl, ...): the handler suspends
CallUpstream ==
    /\ pc = "received"
    /\ req.method = "POST"
    /\ Destructurable(req.body)
    /\ ~InvalidMessagesFormat(req.body.messages)
    /\ ~KeyMissing(GEMINI_API_KEY)
    /\ ~RoleMappingThrows(req.body.messages.a)
    /\ bodyRead' = TRUE
    /\ keyRead' = TRUE
    /\ requestPayload' =
          [contents |-> geminiMessages(req.body.messages.a, req.body.userLocation),
           generationConfig |-> generationConfig,
           safetySettings |-> safetySettings]
    /\ fetchCalls' = fetchCalls + 1
    /\ pc' = "fetch"
    /\ UNCHANGED <<GEMINI_API_KEY, req, upstream, resp>>
    /\ UNCHANGED outsideHandler

\* the fetch promise rejects: catch
FetchRejects ==
    /\ pc = "fetch"
    /\ \E o \in Outcomes :
        /\ o.kind = "reject"
        /\ upstream' = o
    /\ resp' = CatchResponse("fetch failed")
    /\ pc' = "responded"
    /\ UNCHANGED <<GEMINI_API_KEY, req, bodyRead, keyRead, fetchCalls, requestPayload>>
    /\ UNCHANGED outsideHandler

\* if (!geminiResponse.ok): fallback answer with the status and the error text
UpstreamNotOk ==
    /\ pc = "fetch"
    /\ \E o \in Outcomes :
        /\ o.kind = "http"
        /\ ~Ok(o)
        /\ o.shape # "unreadable"
        /\ upstream' = o
        /\ resp' = Response(StatusOk, TRUE, {"error", "response", "details"},
                            "Gemini API error: " \o ToString(o.status),
                            getFallbackResponse(LastContent(req.body.messages.a)),
                            o.errorText, FALSE)
    /\ pc' = "responded"
    /\ UNCHANGED <<GEMINI_API_KEY, req, bodyRead, keyRead, fetchCalls, requestPayload>>
    /\ UNCHANGED outsideHandler

\* geminiResponse.text() or geminiResponse.json() rejects, or reading
\* candidates[0].content.parts[0].text or botResponse.substring throws: catch
ReplyReadThrows ==
    /\ pc = "fetch"
    /\ \E o \in Outcomes :
        /\ o.kind = "http"
        /\ \/ ~Ok(o) /\ o.shape = "unreadable"
           \/ Ok(o) /\ o.shape \in {"notjson", "noparts", "emptyparts", "notext"}
        /\ upstream' = o
        /\ resp' = CatchResponse(
                     IF o.shape = "unreadable" THEN "body stream error"
                     ELSE IF o.shape = "notjson" THEN "Unexpected token in JSON"
                     ELSE IF o.shape = "notext"
                          THEN "Cannot read properties of undefined (reading 'substring')"
                     ELSE "Cannot read properties of undefined")
    /\ pc' = "responded"
    /\ UNCHANGED <<GEMINI_API_KEY, req, bodyRead, keyRead, fetchCalls, requestPayload>>
    /\ UNCHANGED outsideHandler

\* if (!candidates || !candidates[0] || !candidates[0].content): fallback answer
InvalidStructure ==
    /\ pc = "fetch"
    /\ \E o \in Outcomes :
        /\ o.kind = "http"
        /\ Ok(o)
        /\ o.shape \in {"nocandidates", "emptycandidates", "nocontent"}
        /\ upstream' = o
    /\ resp' = Response(StatusOk, TRUE, {"error", "response"},
                        "Invalid response from Gemini API",
                        getFallbackResponse(LastContent(req.body.messages.a)),
                        "", FALSE)
    /\ pc' = "responded"
    /\ UNCHANGED <<GEMINI_API_KEY, req, bodyRead, keyRead, fetchCalls, requestPayload>>
    /\ UNCHANGED outsideHandler

\* if (!botResponse || botResponse.trim().length === 0): fallback answer
EmptyText ==
    /\ pc = "fetch"
    /\ \E o \in Outcomes :
        /\ o.kind = "http"
        /\ Ok(o)
        /\ o.shape = "text"
        /\ (o.text = <<>> \/ Len(trim(o.text)) = 0)
        /\ upstream' = o
    /\ resp' = Response(StatusOk, TRUE, {"error", "response"},
                        "Empty response from Gemini API",
                        getFallbackResponse(LastContent(req.body.messages.a)),
                        "", FALSE)
    /\ pc' = "responded"
    /\ UNCHANGED <<GEMINI_API_KEY, req, bodyRead, keyRead, fetchCalls, requestPayload>>
    /\ UNCHANGED outsideHandler

\* return { response: botResponse, success: true }
Success ==
    /\ pc = "fetch"
    /\ \E o \in Outcomes :
        /\ o.kind = "http"
        /\ Ok(o)
        /\ o.shape = "text"
        /\ ~(o.text = <<>> \/ Len(trim(o.text)) = 0)
        /\ upstream' = o
        /\ resp' = Response(StatusOk, TRUE, {"response", "success"},
                            "", o.text, "", TRUE)
    /\ pc' = "responded"
    /\ UNCHANGED <<GEMINI_API_KEY, req, bodyRead, keyRead, fetchCalls, requestPayload>>
    /\ UNCHANGED outsideHandler

\* the response is sent; the next invocation starts from scratch
Done ==
    /\ pc = "responded"
    /\ pc' = "idle"
    /\ req' = NoRequest
    /\ bodyRead' = FALSE
    /\ keyRead' = FALSE
    /\ fetchCalls' = 0
    /\ requestPayload' = NoPayload
    /\ upstream' = NoOutcome
    /\ resp' = NoResponse
    /\ UNCHANGED GEMINI_API_KEY
    /\ UNCHANGED outsideHandler

Next ==
    \/ Arrive
    \/ Preflight
    \/ MethodNotAllowed
    \/ BodyParseError
    \/ InvalidMessages
    \/ KeyNotConfigured
    \/ PromptAssemblyThrows
    \/ CallUpstream
    \/ FetchRejects
    \/ UpstreamNotOk
    \/ ReplyReadThrows
    \/ InvalidStructure
    \/ EmptyText
    \/ Success
    \/ Done

Spec == Init /\ [][Next]_vars

(* ------------------- getFallbackResponse on its own -------------------- *)

\* the words the messages are made of
Words ==
    {<<"B","e","a","c","h">>,
     <<"T","A","R","K","A","R","L","I">>,
     <<"m","a","l","v","a","n">>,
     <<"m","a","l","v","a","n","i">>,
     <<"F","o","o","d">>,
     <<"c","u","i","s","i","n","e">>,
     <<"F","O","R","T">>,
     <<"S","i","n","d","h","u","d","u","r","g">>,
     <<"h","i","s","t","o","r","y">>,
     <<"T","i","m","e">>,
     <<"w","h","e","n">>,
     <<"S","E","A","S","O","N">>,
     <<"h","e","l","l","o">>,
     <<" ">>}

RECURSIVE Phrases(_)
\* the messages of at most n words
Phrases(n) ==
    IF n = 0 THEN {<<>>}
    ELSE Phrases(n - 1) \cup {ph \o w : ph \in Phrases(n - 1), w \in Words}

FallbackMessages == Phrases(MaxWords)

InitFallback ==
    /\ GEMINI_API_KEY = Unset
    /\ InitHandler
    /\ fallbackArg \in FallbackMessages
    /\ fallbackResponse = NoCall
    /\ InitChat
    /\ lastToast = ""
    /\ InitFormsUnmounted

\* const fallbackResponse = getFallbackResponse(...)
CallFallback ==
    /\ fallbackResponse = NoCall
    /\ fallbackArg # NoCall
    /\ fallbackResponse' = getFallbackResponse(fallbackArg)
    /\ UNCHANGED <<handlerVars, fallbackArg, chatVars, lastToast, formVars>>

NextFallback == CallFallback

SpecFallback == InitFallback /\ [][NextFallback]_vars

(* ------------------------- the ChatBot page ---------------------------- *)
(* src/pages/ChatBot.tsx.  A handler sees the state of the render that      *)
(* created it: a handler run by a click sees the current state, the         *)
(* callback of a setTimeout sees the state of the render that set the       *)
(* timer.  Speech, geolocation, scrolling and testConnection, which only    *)
(* sets connectionStatus, are left out.                                     *)

\* one of the quickQuestions
QuickQuestions == {<<"B","u","d","g","e","t"," ","t","r","a","v","e","l"," ","t","i","p","s">>}

\* what the user types into the input field
InputTexts == {<<>>, <<" ">>, <<"H","i">>}

\* the users getUser can resolve with
Users == {"user-1", "user-2"}

\* the text of a reply of the model (excerpt)
ChatReplyText == <<"V","i","s","i","t"," ","M","a","l","v","a","n">>

\* { data, error } of supabase.functions.invoke, or its rejection
Invoked(rj, er, dt, de, rs) ==
    [rejects |-> rj, error |-> er, data |-> dt, dataError |-> de, response |-> rs]

InvokeResults ==
    {Invoked(TRUE, FALSE, "null", FALSE, JUndefined),
     Invoked(FALSE, TRUE, "null", FALSE, JUndefined),
     Invoked(FALSE, FALSE, "null", FALSE, JUndefined)}
    \cup {Invoked(FALSE, FALSE, "object", FALSE, rs) :
             rs \in {JUndefined, JString(ChatReplyText)}}
    \cup {Invoked(FALSE, FALSE, "object", TRUE, rs) :
             rs \in {JUndefined, JString(<<>>), JString(ChatErrorText)}}

\* what a call returns or that it threw
Returned(tx) == [threw |-> FALSE, value |-> tx]

Threw == [threw |-> TRUE, value |-> <<>>]

\* callGeminiAPI throwing whenever data.error is set
callGeminiAPIThrowsOnError(result) ==
    IF result.rejects \/ result.error THEN Threw
    ELSE IF result.data = "object" /\ result.dataError THEN Threw
    ELSE IF ~(result.data = "object" /\ Truthy(result.response)) THEN Threw
    ELSE Returned(result.response.s)

\* callGeminiAPI, from the settled invoke on
callGeminiAPI(result) ==
    IF result.rejects \/ result.error THEN Threw
    ELSE IF result.data = "object" /\ result.dataError
         THEN IF Truthy(result.response) THEN Returned(result.response.s) ELSE Threw
    ELSE IF ~(result.data = "object" /\ Truthy(result.response)) THEN Threw
    ELSE Returned(result.response.s)

\* the state a handler created by the current render sees
Render ==
    [inputMessage |-> inputMessage, isLoading |-> chatIsLoading,
     messages |-> chatMessages]

\* a call of handleSendMessage that has run its finally block
DoneSend ==
    [pc |-> "done", question |-> <<>>, body |-> <<>>, result |-> NoInvoke,
     botResponse |-> <<>>, user |-> NoUser]

\* messages: chatHistory.map(msg => ({ role, content }))
InvokeBody(chatHistory) ==
    [i \in 1..Len(chatHistory) |->
        [role |-> chatHistory[i].role, content |-> chatHistory[i].content]]

\* handleSendMessage slicing the history before the new message is added
handleSendMessageSlicesHistory(rd) ==
    IF trim(rd.inputMessage) = <<>> \/ rd.isLoading
    THEN UNCHANGED <<chatMessages, inputMessage, chatIsLoading, sends>>
    ELSE LET userMessage == Message("user", rd.inputMessage, FALSE)
             newMessages == Append(rd.messages, userMessage)
         IN  /\ chatMessages' = newMessages
             /\ inputMessage' = <<>>
             /\ chatIsLoading' = TRUE
             /\ \E result \in InvokeResults :
                    sends' = Append(sends,
                        [pc |-> "invoke", question |-> rd.inputMessage,
                         body |-> InvokeBody(Append(SliceLast(rd.messages, RecentLimit),
                                                    userMessage)),
                         result |-> result, botResponse |-> <<>>, user |-> NoUser])

\* handleSendMessage of the render rd, up to the await of the invoke; what
\* the invoke will come to is drawn here
handleSendMessage(rd) ==
    IF trim(rd.inputMessage) = <<>> \/ rd.isLoading
    THEN UNCHANGED <<chatMessages, inputMessage, chatIsLoading, sends>>
    ELSE LET userMessage == Message("user", rd.inputMessage, FALSE)
             newMessages == Append(rd.messages, userMessage)
         IN  /\ chatMessages' = newMessages
             /\ inputMessage' = <<>>
             /\ chatIsLoading' = TRUE
             /\ \E result \in InvokeResults :
                    sends' = Append(sends,
                        [pc |-> "invoke", question |-> rd.inputMessage,
                         body |-> InvokeBody(SliceLast(newMessages, RecentLimit)),
                         result |-> result, botResponse |-> <<>>, user |-> NoUser])

\* everything a step of ChatBot leaves alone
outsideChat == <<handlerVars, fallbackVars, formVars>>

\* onChange of the input field, which is disabled while isLoading
TypeInput ==
    /\ ~chatIsLoading
    /\ \E tx \in InputTexts : inputMessage' = tx
    /\ UNCHANGED <<chatMessages, chatIsLoading, connectionStatus, sends, timers, lastToast>>
    /\ UNCHANGED outsideChat

\* the Enter key in the input field or a click on the send button, both
\* unavailable while isLoading
PressSend ==
    /\ ~chatIsLoading
    /\ Len(sends) + Len(timers) < MaxSends
    /\ handleSendMessage(Render)
    /\ UNCHANGED <<connectionStatus, timers,
                   lastToast>>
    /\ UNCHANGED outsideChat

\* handleQuickQuestion(question): the timer keeps the handleSendMessage of
\* this render
QuickQuestion ==
    /\ ~chatIsLoading
    /\ Len(sends) + Len(timers) < MaxSends
    /\ \E question \in QuickQuestions : inputMessage' = question
    /\ timers' = Append(timers, Render)
    /\ UNCHANGED <<chatMessages, chatIsLoading, connectionStatus, sends, lastToast>>
    /\ UNCHANGED outsideChat

\* the timer of a quick question fires: () => handleSendMessage()
TimerFires ==
    /\ timers # <<>>
    /\ handleSendMessage(Head(timers))
    /\ timers' = Tail(timers)
    /\ UNCHANGED <<connectionStatus, lastToast>>
    /\ UNCHANGED outsideChat

\* the invoke of a send settles: the rest of the try block up to the await
\* of getUser, or the catch and finally blocks
InvokeSettles ==
    \E i \in DOMAIN sends :
        /\ sends[i].pc = "invoke"
        /\ LET out == callGeminiAPI(sends[i].result)
           IN  IF ~out.threw
               THEN /\ chatMessages' =
                          Append(chatMessages, Message("assistant", out.value, FALSE))
                    /\ connectionStatus' = "connected"
                    /\ sends' = [sends EXCEPT ![i].pc = "getUser",
                                              ![i].botResponse = out.value]
                    /\ UNCHANGED <<chatIsLoading, lastToast>>
               ELSE /\ connectionStatus' = "error"
                    /\ chatMessages' =
                          Append(chatMessages, Message("assistant", ChatErrorText, TRUE))
                    /\ lastToast' = "Connection Error"
                    /\ chatIsLoading' = FALSE
                    /\ sends' = [sends EXCEPT ![i] = DoneSend]
        /\ UNCHANGED <<inputMessage, timers>>
        /\ UNCHANGED outsideChat

\* getUser awaited without the inner try block: its rejection reaches the
\* catch block of handleSendMessage
ChatGetUserSettlesOuterCatch ==
    \E i \in DOMAIN sends : \E u \in Users \cup {NoUser, "throws"} :
        /\ sends[i].pc = "getUser"
        /\ IF u \in Users
           THEN /\ sends' = [sends EXCEPT ![i].pc = "insert", ![i].user = u]
                /\ UNCHANGED <<chatIsLoading, chatMessages, connectionStatus, lastToast>>
           ELSE /\ sends' = [sends EXCEPT ![i] = DoneSend]
                /\ chatIsLoading' = FALSE
                /\ IF u = "throws"
                   THEN /\ connectionStatus' = "error"
                        /\ chatMessages' =
                              Append(chatMessages,
                                     Message("assistant", ChatErrorText, TRUE))
                        /\ lastToast' = "Connection Error"
                   ELSE UNCHANGED <<chatMessages, connectionStatus, lastToast>>
        /\ UNCHANGED <<inputMessage, timers>>
        /\ UNCHANGED outsideChat

\* supabase.auth.getUser() settles in the inner try block
ChatGetUserSettles ==
    \E i \in DOMAIN sends : \E u \in Users \cup {NoUser, "throws"} :
        /\ sends[i].pc = "getUser"
        /\ IF u \in Users
           THEN /\ sends' = [sends EXCEPT ![i].pc = "insert", ![i].user = u]
                /\ UNCHANGED chatIsLoading
           ELSE /\ sends' = [sends EXCEPT ![i] = DoneSend]
                /\ chatIsLoading' = FALSE
        /\ UNCHANGED <<chatMessages, inputMessage, connectionStatus, timers, lastToast>>
        /\ UNCHANGED outsideChat

\* the insert into chat_logs of { user_id, question, response }, which are
\* user, question and botResponse of the send, settles: whether it stored
\* the row, returned an error or threw, the handler goes on the same way
ChatLogSettles ==
    \E i \in DOMAIN sends : \E outcome \in {"ok", "error", "throws"} :
        /\ sends[i].pc = "insert"
        /\ sends' = [sends EXCEPT ![i] = DoneSend]
        /\ chatIsLoading' = FALSE
        /\ UNCHANGED <<chatMessages, inputMessage, connectionStatus, timers,
                       lastToast>>
        /\ UNCHANGED outsideChat

InitChatPage ==
    /\ GEMINI_API_KEY = Unset
    /\ InitHandler
    /\ fallbackArg = NoCall
    /\ fallbackResponse = NoCall
    /\ InitChat
    /\ lastToast = ""
    /\ InitFormsUnmounted

NextChat ==
    \/ TypeInput
    \/ PressSend
    \/ QuickQuestion
    \/ TimerFires
    \/ InvokeSettles
    \/ ChatGetUserSettles
    \/ ChatLogSettles

SpecChat == InitChatPage /\ [][NextChat]_vars

\* the i-th message after the greeting of a conversation held earlier: the
\* user and the assistant alternate, and the content names the position
EarlierTurn(i) ==
    IF i % 2 = 1
    THEN Message("user", <<"q", Digits[(i + 1) \div 2 + 1]>>, FALSE)
    ELSE Message("assistant", <<"a", Digits[i \div 2 + 1]>>, FALSE)

\* the numbers of messages exchanged earlier: the next send fills the
\* window of RecentLimit messages, or exceeds it
EarlierLens == {RecentLimit - 2, RecentLimit}

\* the ChatBot page after k messages were exchanged and answered
InitChatLong ==
    /\ GEMINI_API_KEY = Unset
    /\ InitHandler
    /\ fallbackArg = NoCall
    /\ fallbackResponse = NoCall
    /\ \E k \in EarlierLens :
          chatMessages = <<Message("assistant", ChatGreeting, FALSE)>>
                         \o [i \in 1..k |-> EarlierTurn(i)]
    /\ inputMessage = <<>>
    /\ chatIsLoading = FALSE
    /\ connectionStatus = "connected"
    /\ sends = <<>>
    /\ timers = <<>>
    /\ lastToast = ""
    /\ InitFormsUnmounted

\* the ChatBot page late in a conversation
SpecChatLong == InitChatLong /\ [][NextChat]_vars

(* --------- BookingModal, ReviewModal and FavoriteButton ---------------- *)
(* src/components/BookingModal.tsx, src/components/ReviewModal.tsx and the  *)
(* FavoriteButton component.  The three components share no state, so one   *)
(* of them is observed at a time.  A call in flight keeps the values of the *)
(* render that started it; what it sends to the backend is kept in its      *)
(* row.  A Date is written as yyyy-MM-dd throughout.                        *)

Components == {"BookingModal", "ReviewModal", "FavoriteButton"}

\* the props packageData; FavoriteButton gets id and type as packageId and
\* packageType
Packages ==
    [id : {"pkg-1"}, price : {1500, 2999}, type : {"package", "tour_package"}]

\* the days picked in the calendar; "" is undefined
Dates == {"", "2026-12-24"}

Phones == {"", "9800000000"}

Emails == {"", "a@b.in"}

SpecialTexts == {"", "veg"}

Titles == {"", "Great"}

Comments == {"", "Loved it"}

\* e.target.value of the number input
PeopleTexts ==
    {<<>>, <<"0">>, <<"2">>, <<"2","0">>, <<"2","1">>, <<"-","3">>, <<"2",".","5">>}

\* null in a row
Null == "<null>"

\* NaN, and a number, as parseInt returns them
NaN == [nan |-> TRUE, n |-> 0]

Num(n) == [nan |-> FALSE, n |-> n]

DigitValue ==
    [c \in {"0","1","2","3","4","5","6","7","8","9"} |->
        CHOOSE n \in 0..9 : <<"0","1","2","3","4","5","6","7","8","9">>[n + 1] = c]

RECURSIVE LeadingDigits(_)
\* the digits a text starts with
LeadingDigits(s) ==
    IF s = <<>> \/ s[1] \notin DOMAIN DigitValue THEN <<>>
    ELSE <<s[1]>> \o LeadingDigits(Tail(s))

RECURSIVE DecimalValue(_)
\* the number a sequence of digits denotes
DecimalValue(ds) ==
    IF ds = <<>> THEN 0
    ELSE 10 * DecimalValue(SubSeq(ds, 1, Len(ds) - 1)) + DigitValue[ds[Len(ds)]]

RECURSIVE trimStart(_)
\* the text without its leading white space
trimStart(s) ==
    IF s # <<>> /\ s[1] \in Whitespace THEN trimStart(Tail(s)) ELSE s

\* parseInt(string): white space, a sign, then digits up to the first other
\* character
parseInt(s) ==
    LET ts == trimStart(s)
        signed == ts # <<>> /\ ts[1] \in {"+", "-"}
        ds == LeadingDigits(IF signed THEN Tail(ts) ELSE ts)
    IN  IF ds = <<>> THEN NaN
        ELSE IF signed /\ ts[1] = "-" THEN Num(0 - DecimalValue(ds))
        ELSE Num(DecimalValue(ds))

\* parseInt(e.target.value) || 1
ParsedPeople(s) ==
    LET v == parseInt(s) IN IF v.nan \/ v.n = 0 THEN 1 ELSE v.n

\* the number input accepts every value
PeopleInputValidNoRange == TRUE

\* the constraint validation of the number input, min="1" max="20", which a
\* submit of the form runs before the submit event; the input shows the
\* state numberOfPeople
PeopleInputValid == numberOfPeople >= MinPeople /\ numberOfPeople <= MaxPeople

\* the user check that lets everybody through
NotLoggedInNever(u) == FALSE

\* if (!user)
NotLoggedIn(u) == u = NoUser

\* the column always package_id
PackageKeyAlwaysPackage(type) == "package_id"

\* packageData.type === 'package' ? 'package_id' : 'tour_package_id'
PackageKey(type) == IF type = "package" THEN "package_id" ELSE "tour_package_id"

\* const totalAmount = packageData.price * numberOfPeople
totalAmount == packageData.price * numberOfPeople

\* the values of the render that handleSubmit of BookingModal belongs to
BookingRender ==
    [packageData |-> packageData, bookingDate |-> bookingDate,
     numberOfPeople |-> numberOfPeople, totalAmount |-> totalAmount,
     contactPhone |-> contactPhone, contactEmail |-> contactEmail,
     specialRequests |-> specialRequests]

\* bookingData
bookingData(rd, u) ==
    (PackageKey(rd.packageData.type) :> rd.packageData.id)
    @@ [user_id |-> u,
        booking_date |-> rd.bookingDate,
        number_of_people |-> rd.numberOfPeople,
        total_amount |-> rd.totalAmount,
        contact_phone |-> rd.contactPhone,
        contact_email |-> rd.contactEmail,
        special_requests |-> IF rd.specialRequests = "" THEN Null
                             ELSE rd.specialRequests,
        status |-> "pending"]

\* the values of the render that handleSubmit of ReviewModal belongs to
ReviewRender ==
    [packageData |-> packageData, rating |-> rating, title |-> title,
     comment |-> comment]

\* reviewData
reviewData(rd, u) ==
    (PackageKey(rd.packageData.type) :> rd.packageData.id)
    @@ [user_id |-> u, rating |-> rd.rating, title |-> rd.title,
        comment |-> rd.comment]

\* favoriteData, and the filter of the delete
favoriteData(u) ==
    (PackageKey(packageData.type) :> packageData.id) @@ [user_id |-> u]

\* no row built
NoRow == [status |-> "none"]

\* no render kept
NoRender == [status |-> "none"]

\* a call in flight
Op(p, rd, u, rw) == [pc |-> p, render |-> rd, user |-> u, row |-> rw]

\* the sequence without its i-th element
RemoveAt(sq, i) == SubSeq(sq, 1, i - 1) \o SubSeq(sq, i + 1, Len(sq))

\* what getUser comes to
GetUserOutcomes == Users \cup {NoUser, "throws"}

\* what an insert, delete or select comes to
BackendOutcomes == {"ok", "error", "throws"}

\* everything a step of the three components leaves alone
outsideForms == <<handlerVars, fallbackVars, chatVars>>

\* the parent closes or opens the modal; the component keeps its state
ToggleModal ==
    /\ mounted \in {"BookingModal", "ReviewModal"}
    /\ isOpen' = ~isOpen
    /\ UNCHANGED <<mounted, packageData, bookingVars, reviewVars, favoriteVars,
                   lastToast>>
    /\ UNCHANGED outsideForms

\* the fields of BookingModal are edited
EditBooking ==
    /\ mounted = "BookingModal"
    /\ isOpen
    /\ \/ /\ \E dt \in Dates : bookingDate' = dt
          /\ UNCHANGED <<numberOfPeople, contactPhone, contactEmail, specialRequests>>
       \/ /\ \E tx \in PeopleTexts : numberOfPeople' = ParsedPeople(tx)
          /\ UNCHANGED <<bookingDate, contactPhone, contactEmail, specialRequests>>
       \/ /\ \E tx \in Phones : contactPhone' = tx
          /\ UNCHANGED <<bookingDate, numberOfPeople, contactEmail, specialRequests>>
       \/ /\ \E tx \in Emails : contactEmail' = tx
          /\ UNCHANGED <<bookingDate, numberOfPeople, contactPhone, specialRequests>>
       \/ /\ \E tx \in SpecialTexts : specialRequests' = tx
          /\ UNCHANGED <<bookingDate, numberOfPeople, contactPhone, contactEmail>>
    /\ UNCHANGED <<mounted, packageData, isOpen, bookingIsSubmitting, bookingOp,
                   reviewVars, favoriteVars, lastToast>>
    /\ UNCHANGED outsideForms

\* the form of BookingModal is submitted: handleSubmit up to the await of
\* getUser
SubmitBooking ==
    /\ mounted = "BookingModal"
    /\ isOpen
    /\ ~bookingIsSubmitting
    /\ PeopleInputValid
    /\ IF bookingDate = "" \/ contactPhone = "" \/ contactEmail = ""
       THEN /\ lastToast' = "Missing Information"
            /\ UNCHANGED <<bookingIsSubmitting, bookingOp>>
       ELSE /\ bookingIsSubmitting' = TRUE
            /\ bookingOp' = Op("getUser", BookingRender, NoUser, NoRow)
            /\ UNCHANGED lastToast
    /\ UNCHANGED <<mounted, packageData, isOpen, bookingDate, numberOfPeople,
                   contactPhone, contactEmail, specialRequests, reviewVars,
                   favoriteVars>>
    /\ UNCHANGED outsideForms

\* handleSubmit of BookingModal with setIsSubmitting(false) at the end of
\* the try block and of the catch block instead of in finally: the early
\* return leaves the flag set
BookingGetUserSettlesNoFinally ==
    /\ bookingOp.pc = "getUser"
    /\ \E u \in GetUserOutcomes :
          IF u = "throws" \/ NotLoggedIn(u)
          THEN /\ lastToast' = IF u = "throws" THEN "Booking Failed"
                               ELSE "Authentication Required"
               /\ bookingIsSubmitting' = (u # "throws")
               /\ bookingOp' = Op("idle", NoRender, NoUser, NoRow)
          ELSE /\ bookingOp' = Op("insert", bookingOp.render, u,
                                  bookingData(bookingOp.render, u))
               /\ UNCHANGED <<lastToast, bookingIsSubmitting>>
    /\ UNCHANGED <<mounted, packageData, isOpen, bookingDate, numberOfPeople,
                   contactPhone, contactEmail, specialRequests, reviewVars,
                   favoriteVars>>
    /\ UNCHANGED outsideForms

\* getUser settles in handleSubmit of BookingModal: the early return or the
\* catch block, each followed by finally, or the insert
BookingGetUserSettles ==
    /\ bookingOp.pc = "getUser"
    /\ \E u \in GetUserOutcomes :
          IF u = "throws" \/ NotLoggedIn(u)
          THEN /\ lastToast' = IF u = "throws" THEN "Booking Failed"
                               ELSE "Authentication Required"
               /\ bookingIsSubmitting' = FALSE
               /\ bookingOp' = Op("idle", NoRender, NoUser, NoRow)
          ELSE /\ bookingOp' = Op("insert", bookingOp.render, u,
                                  bookingData(bookingOp.render, u))
               /\ UNCHANGED <<lastToast, bookingIsSubmitting>>
    /\ UNCHANGED <<mounted, packageData, isOpen, bookingDate, numberOfPeople,
                   contactPhone, contactEmail, specialRequests, reviewVars,
                   favoriteVars>>
    /\ UNCHANGED outsideForms

\* the insert into bookings settles
BookingInsertSettles ==
    /\ bookingOp.pc = "insert"
    /\ \E outcome \in BackendOutcomes :
          IF outcome = "ok"
          THEN /\ lastToast' = "Booking Submitted!"
               /\ isOpen' = FALSE
               /\ bookingDate' = ""
               /\ numberOfPeople' = 1
               /\ contactPhone' = ""
               /\ contactEmail' = ""
               /\ specialRequests' = ""
          ELSE /\ lastToast' = "Booking Failed"
               /\ UNCHANGED <<isOpen, bookingDate, numberOfPeople, contactPhone,
                              contactEmail, specialRequests>>
    /\ bookingIsSubmitting' = FALSE
    /\ bookingOp' = Op("idle", NoRender, NoUser, NoRow)
    /\ UNCHANGED <<mounted, packageData, reviewVars, favoriteVars>>
    /\ UNCHANGED outsideForms

\* the fields of ReviewModal are edited
EditReview ==
    /\ mounted = "ReviewModal"
    /\ isOpen
    /\ \/ /\ \E star \in 1..5 : rating' = star
          /\ UNCHANGED <<title, comment>>
       \/ /\ \E tx \in Titles : title' = tx
          /\ UNCHANGED <<rating, comment>>
       \/ /\ \E tx \in Comments : comment' = tx
          /\ UNCHANGED <<rating, title>>
    /\ UNCHANGED <<mounted, packageData, isOpen, reviewIsSubmitting, reviewOp,
                   bookingVars, favoriteVars, lastToast>>
    /\ UNCHANGED outsideForms

\* handleSubmit of ReviewModal checking the title only
SubmitReviewTitleOnly ==
    /\ mounted = "ReviewModal"
    /\ isOpen
    /\ ~reviewIsSubmitting
    /\ IF title = ""
       THEN /\ lastToast' = "Missing Information"
            /\ UNCHANGED <<reviewIsSubmitting, reviewOp>>
       ELSE /\ reviewIsSubmitting' = TRUE
            /\ reviewOp' = Op("getUser", ReviewRender, NoUser, NoRow)
            /\ UNCHANGED lastToast
    /\ UNCHANGED <<mounted, packageData, isOpen, rating, title, comment,
                   bookingVars, favoriteVars>>
    /\ UNCHANGED outsideForms

\* the form of ReviewModal is submitted: handleSubmit up to the await of
\* getUser
SubmitReview ==
    /\ mounted = "ReviewModal"
    /\ isOpen
    /\ ~reviewIsSubmitting
    /\ IF title = "" \/ comment = ""
       THEN /\ lastToast' = "Missing Information"
            /\ UNCHANGED <<reviewIsSubmitting, reviewOp>>
       ELSE /\ reviewIsSubmitting' = TRUE
            /\ reviewOp' = Op("getUser", ReviewRender, NoUser, NoRow)
            /\ UNCHANGED lastToast
    /\ UNCHANGED <<mounted, packageData, isOpen, rating, title, comment,
                   bookingVars, favoriteVars>>
    /\ UNCHANGED outsideForms

\* getUser settles in handleSubmit of ReviewModal
ReviewGetUserSettles ==
    /\ reviewOp.pc = "getUser"
    /\ \E u \in GetUserOutcomes :
          IF u = "throws" \/ NotLoggedIn(u)
          THEN /\ lastToast' = IF u = "throws" THEN "Review Failed"
                               ELSE "Authentication Required"
               /\ reviewIsSubmitting' = FALSE
               /\ reviewOp' = Op("idle", NoRender, NoUser, NoRow)
          ELSE /\ reviewOp' = Op("insert", reviewOp.render, u,
                                 reviewData(reviewOp.render, u))
               /\ UNCHANGED <<lastToast, reviewIsSubmitting>>
    /\ UNCHANGED <<mounted, packageData, isOpen, rating, title, comment,
                   bookingVars, favoriteVars>>
    /\ UNCHANGED outsideForms

\* the insert into reviews settles
ReviewInsertSettles ==
    /\ reviewOp.pc = "insert"
    /\ \E outcome \in BackendOutcomes :
          IF outcome = "ok"
          THEN /\ lastToast' = "Review Submitted!"
               /\ isOpen' = FALSE
               /\ rating' = 5
               /\ title' = ""
               /\ comment' = ""
          ELSE /\ lastToast' = "Review Failed"
               /\ UNCHANGED <<isOpen, rating, title, comment>>
    /\ reviewIsSubmitting' = FALSE
    /\ reviewOp' = Op("idle", NoRender, NoUser, NoRow)
    /\ UNCHANGED <<mounted, packageData, bookingVars, favoriteVars>>
    /\ UNCHANGED outsideForms

\* getUser settles in checkFavoriteStatus
CheckGetUserSettles ==
    /\ favoriteCheck.pc = "getUser"
    /\ \E u \in GetUserOutcomes :
          favoriteCheck' = IF u = "throws" \/ NotLoggedIn(u)
                           THEN Op("idle", NoRender, NoUser, NoRow)
                           ELSE Op("select", NoRender, u, favoriteData(u))
    /\ UNCHANGED <<mounted, packageData, isOpen, bookingVars, reviewVars,
                   isFavorite, favoriteIsLoading, favoriteOps, lastToast>>
    /\ UNCHANGED outsideForms

\* the select of checkFavoriteStatus settles: a row, no row (PGRST116),
\* another error, or a rejection
CheckSelectSettles ==
    /\ favoriteCheck.pc = "select"
    /\ \E outcome \in {"found", "none", "error", "throws"} :
          isFavorite' = IF outcome = "found" THEN TRUE
                        ELSE IF outcome = "none" THEN FALSE
                        ELSE isFavorite
    /\ favoriteCheck' = Op("idle", NoRender, NoUser, NoRow)
    /\ UNCHANGED <<mounted, packageData, isOpen, bookingVars, reviewVars,
                   favoriteIsLoading, favoriteOps, lastToast>>
    /\ UNCHANGED outsideForms

\* a click on the button, disabled while isLoading: toggleFavorite up to
\* the await of getUser
ToggleFavorite ==
    /\ mounted = "FavoriteButton"
    /\ ~favoriteIsLoading
    /\ Len(favoriteOps) < MaxToggles
    /\ favoriteOps' = Append(favoriteOps,
                             Op("getUser", [isFavorite |-> isFavorite], NoUser, NoRow))
    /\ UNCHANGED <<mounted, packageData, isOpen, bookingVars, reviewVars,
                   isFavorite, favoriteIsLoading, favoriteCheck, lastToast>>
    /\ UNCHANGED outsideForms

\* getUser settles in toggleFavorite
ToggleGetUserSettles ==
    /\ \E i \in DOMAIN favoriteOps : \E u \in GetUserOutcomes :
          /\ favoriteOps[i].pc = "getUser"
          /\ IF u = "throws" \/ NotLoggedIn(u)
             THEN /\ lastToast' = IF u = "throws" THEN "Error"
                                  ELSE "Authentication Required"
                  /\ favoriteIsLoading' = FALSE
                  /\ favoriteOps' = RemoveAt(favoriteOps, i)
             ELSE /\ favoriteIsLoading' = TRUE
                  /\ favoriteOps' =
                        [favoriteOps EXCEPT ![i] =
                            Op(IF favoriteOps[i].render.isFavorite
                               THEN "delete" ELSE "insert",
                               favoriteOps[i].render, u, favoriteData(u))]
                  /\ UNCHANGED lastToast
    /\ UNCHANGED <<mounted, packageData, isOpen, bookingVars, reviewVars,
                   isFavorite, favoriteCheck>>
    /\ UNCHANGED outsideForms

\* the delete or the insert of toggleFavorite settles
ToggleSettles ==
    /\ \E i \in DOMAIN favoriteOps : \E outcome \in BackendOutcomes :
          /\ favoriteOps[i].pc \in {"delete", "insert"}
          /\ IF outcome = "ok"
             THEN /\ isFavorite' = (favoriteOps[i].pc = "insert")
                  /\ lastToast' = IF favoriteOps[i].pc = "insert"
                                  THEN "Added to Favorites"
                                  ELSE "Removed from Favorites"
             ELSE /\ lastToast' = "Error"
                  /\ UNCHANGED isFavorite
          /\ favoriteIsLoading' = FALSE
          /\ favoriteOps' = RemoveAt(favoriteOps, i)
    /\ UNCHANGED <<mounted, packageData, isOpen, bookingVars, reviewVars,
                   favoriteCheck>>
    /\ UNCHANGED outsideForms

\* one of the three components on the page, just mounted; the effect of
\* FavoriteButton has called checkFavoriteStatus
InitForms ==
    /\ GEMINI_API_KEY = Unset
    /\ InitHandler
    /\ fallbackArg = NoCall
    /\ fallbackResponse = NoCall
    /\ InitChat
    /\ lastToast = ""
    /\ mounted \in Components
    /\ packageData \in Packages
    /\ isOpen = (mounted # "FavoriteButton")
    /\ InitBooking
    /\ InitReview
    /\ isFavorite = FALSE
    /\ favoriteIsLoading = FALSE
    /\ favoriteOps = <<>>
    /\ favoriteCheck = IF mounted = "FavoriteButton"
                       THEN Op("getUser", NoRender, NoUser, NoRow)
                       ELSE Op("idle", NoRender, NoUser, NoRow)

NextForms ==
    \/ ToggleModal
    \/ EditBooking
    \/ SubmitBooking
    \/ BookingGetUserSettles
    \/ BookingInsertSettles
    \/ EditReview
    \/ SubmitReview
    \/ ReviewGetUserSettles
    \/ ReviewInsertSettles
    \/ CheckGetUserSettles
    \/ CheckSelectSettles
    \/ ToggleFavorite
    \/ ToggleGetUserSettles
    \/ ToggleSettles

SpecForms == InitForms /\ [][NextForms]_vars

\* ------------------------------------------------------------------------
\* One page at a time, the chat page or a page with one of the three
\* components, with the scheduling the runtime gives: every promise of a
\* backend call that is awaited settles (the proviso of the busy-flag
\* property), and a timer set by setTimeout fires.  What the user does is
\* never forced.  On the chat page the behaviours followed are those with
\* at most MaxLiveSends sends and timers.
NextPage ==
    \/ /\ mounted = "none"
       /\ NextChat
       /\ Len(sends') + Len(timers') <= MaxLiveSends
    \/ /\ mounted # "none"
       /\ NextForms

Fairness ==
    /\ WF_vars(TimerFires)
    /\ WF_vars(InvokeSettles)
    /\ WF_vars(ChatGetUserSettles)
    /\ WF_vars(ChatLogSettles)
    /\ WF_vars(BookingGetUserSettles)
    /\ WF_vars(BookingInsertSettles)
    /\ WF_vars(ReviewGetUserSettles)
    /\ WF_vars(ReviewInsertSettles)
    /\ WF_vars(CheckGetUserSettles)
    /\ WF_vars(CheckSelectSettles)
    /\ WF_vars(ToggleGetUserSettles)
    /\ WF_vars(ToggleSettles)

SpecLive == (InitChatPage \/ InitForms) /\ [][NextPage]_vars /\ Fairness

(* ------------------------ vocabulary of the claims --------------------- *)

Responded == pc = "responded"

IsPost == req.method = "POST"

\* the body parsed to a JSON object
ObjectBody == req.body.kind = "object"

\* the body parsed to a JSON object whose messages property is an array
MessagesIsArray == ObjectBody /\ req.body.messages.t = "array"

\* a turn as the interface ChatMessage and the request contract want it
ValidTurn(e) == ~e.isNull /\ e.role \in {"user", "assistant"} /\ e.content # <<>>

\* a non-empty messages array of valid turns
ValidMessages ==
    /\ MessagesIsArray
    /\ Len(req.body.messages.a) > 0
    /\ \A i \in 1..Len(req.body.messages.a) : ValidTurn(req.body.messages.a[i])

\* the credential is unset, empty or the placeholder
CredentialAbsent == GEMINI_API_KEY \in {Unset, "", Placeholder}

ClientError == resp.status >= 400 /\ resp.status <= 499

\* the upstream call was made and did not produce a usable text
UpstreamFailed ==
    \/ upstream.kind = "reject"
    \/ upstream.kind = "http" /\ ~Ok(upstream)
    \/ upstream.kind = "http" /\ Ok(upstream) /\ upstream.shape \in Shapes
    \/ upstream.kind = "http" /\ Ok(upstream) /\ upstream.shape = "text"
          /\ \A i \in 1..Len(upstream.text) : upstream.text[i] \in Whitespace

\* the content of the most recent turn with role user, '' when there is none
LatestUserContent(messages) ==
    LET users == {i \in 1..Len(messages) :
                    ~messages[i].isNull /\ messages[i].role = "user"}
    IN  IF users = {} THEN <<>>
        ELSE messages[CHOOSE i \in users : \A j \in users : j <= i].content

\* every text getFallbackResponse can return
FallbackTexts == {BeachAnswer, FoodAnswer, FortAnswer, SeasonAnswer, GenericAnswer}

(* ------------------------------- claims -------------------------------- *)

\* C1: a POST request with a non-empty messages array of valid turns is
\* answered with status 200 whatever the credential is and whatever the
\* upstream call comes to.
C1_ValidRequestAlways200 ==
    (Responded /\ IsPost /\ ValidMessages) => resp.status = 200

\* C1 witness: such a request answered after the fetch rejected
C1_Witness ==
    /\ Responded /\ IsPost /\ ValidMessages
    /\ upstream.kind = "reject"
    /\ resp.status = 200

\* C2 (as claimed): a POST request whose messages is missing, not an array
\* or an empty array gets a 4xx answer and causes no upstream call.
C2_BadMessagesRejected ==
    (/\ pc \in {"fetch", "responded"}
     /\ IsPost /\ ObjectBody
     /\ \/ req.body.messages.t # "array"
        \/ Len(req.body.messages.a) = 0)
    => (fetchCalls = 0 /\ (Responded => ClientError))

\* C3 (as claimed): a POST request whose messages array holds a turn with a
\* role other than user or assistant, or with empty content, gets a 4xx
\* answer with an error message and causes no upstream call.
C3_BadTurnRejected ==
    (/\ pc \in {"fetch", "responded"}
     /\ IsPost /\ MessagesIsArray
     /\ \E i \in 1..Len(req.body.messages.a) :
           /\ ~req.body.messages.a[i].isNull
           /\ \/ req.body.messages.a[i].role \notin {"user", "assistant"}
              \/ req.body.messages.a[i].content = <<>>)
    => (/\ fetchCalls = 0
        /\ Responded => (ClientError /\ "error" \in resp.fields /\ resp.error # ""))

\* C4 (as claimed): a POST request whose body is missing, unparseable or
\* not a JSON object gets a 4xx answer and causes no upstream call.
C4_BadBodyRejected ==
    (/\ pc \in {"fetch", "responded"}
     /\ IsPost /\ ~ObjectBody)
    => (fetchCalls = 0 /\ (Responded => ClientError))

\* C5 (as claimed): whenever the upstream call made for a request with
\* valid messages fails, the response text is
\* getFallbackResponse of the latest user turn (the beach answer when that
\* turn contains 'tarkarli', the generic answer when it holds no keyword),
\* and error is non-empty.
C5_FailureGivesFallbackAnswer ==
    (Responded /\ fetchCalls > 0 /\ ValidMessages /\ UpstreamFailed)
    => LET latest == LatestUserContent(req.body.messages.a)
       IN  /\ resp.response = getFallbackResponse(latest)
           /\ includes(toLowerCase(latest), <<"t","a","r","k","a","r","l","i">>)
                 => resp.response = BeachAnswer
           /\ "error" \in resp.fields
           /\ resp.error # ""

\* C6: when a POST request with a messages array meets a credential that is
\* unset, empty or the placeholder, the answer is status 200 with the 'not
\* properly configured' apology and a non-empty error, no upstream call is
\* made, and no answer given under a configured credential for a failed
\* call or an internal error carries that apology.
C6_MissingKeyApology ==
    /\ (IsPost /\ MessagesIsArray /\ CredentialAbsent)
          => /\ fetchCalls = 0
             /\ pc # "fetch"
             /\ Responded =>
                   /\ resp.status = 200
                   /\ resp.fields = {"error", "response"}
                   /\ resp.response = NotConfigured
                   /\ resp.error # ""
    /\ NotConfigured \notin FallbackTexts \cup {TechnicalDifficulties}
    /\ (Responded /\ "error" \in resp.fields /\ ~CredentialAbsent)
          => resp.response # NotConfigured

\* C6 witness: the placeholder credential answered with the apology
C6_Witness ==
    /\ Responded /\ IsPost /\ MessagesIsArray
    /\ GEMINI_API_KEY = Placeholder
    /\ resp.response = NotConfigured
    /\ fetchCalls = 0

\* C7: for a messages array of length n the turns of the upstream payload
\* (after the system prompt and the greeting) are the last min(n, 10)
\* turns, in order, content unchanged, user sent as user and assistant as
\* model.
C7_LastTenTurnsForwarded ==
    (fetchCalls > 0) =>
        LET a == req.body.messages.a
            n == Len(a)
            k == IF n < 10 THEN n ELSE 10
        IN  /\ Len(requestPayload.contents) = 2 + k
            /\ \A i \in 1..k :
                 /\ requestPayload.contents[2 + i].text = a[n - k + i].content
                 /\ a[n - k + i].role = "user" => requestPayload.contents[2 + i].role = "user"
                 /\ a[n - k + i].role = "assistant" => requestPayload.contents[2 + i].role = "model"

\* C7 witness: a call made for more than ten messages, older turns dropped
C7_Witness ==
    /\ fetchCalls > 0
    /\ Len(req.body.messages.a) > 10
    /\ Len(requestPayload.contents) = 12
    /\ requestPayload.contents[3].text = req.body.messages.a[Len(req.body.messages.a) - 9].content

ReachesFetch ==
    /\ IsPost /\ MessagesIsArray
    /\ ~CredentialAbsent
    /\ \A i \in 1..Len(req.body.messages.a) :
          (i > Len(req.body.messages.a) - 10) => ~req.body.messages.a[i].isNull

C9_FailOpenBodies ==
    Responded =>
        /\ (\/ keyRead /\ CredentialAbsent
            \/ fetchCalls > 0 /\ UpstreamFailed
            \/ {"error", "response"} \subseteq resp.fields)
              => /\ resp.status = 200
                 /\ resp.hasBody
                 /\ {"error", "response"} \subseteq resp.fields
                 /\ resp.response # <<>>
                 /\ resp.error # ""
                 /\ "success" \notin resp.fields
                 /\ ~resp.success
        /\ ("success" \in resp.fields \/ resp.success)
              => /\ resp.success
                 /\ upstream.kind = "http" /\ upstream.shape = "text"
                 /\ resp.response = upstream.text
                 /\ "error" \notin resp.fields

\* C9 witness: a non-2xx upstream reply answered with a fallback body for a
\* message without keyword
C9_Witness ==
    /\ Responded
    /\ upstream.kind = "http" /\ ~Ok(upstream)
    /\ resp.fields = {"error", "response", "details"}
    /\ resp.response = GenericAnswer

\* C10 (as claimed): for valid messages with a user turn, the text
\* getFallbackResponse is applied to is the content of the most recent turn
\* with role user, also when the last element of messages is an assistant
\* turn.
C10_FallbackUsesLatestUserTurn ==
    (/\ Responded /\ fetchCalls > 0
     /\ ValidMessages
     /\ \E i \in 1..Len(req.body.messages.a) : req.body.messages.a[i].role = "user"
     /\ resp.fields \in {{"error", "response"}, {"error", "response", "details"}}
     /\ resp.error # "Internal server error")
    => resp.response = getFallbackResponse(LatestUserContent(req.body.messages.a))

\* the keyword groups in the order the spec gives them
KeywordGroups ==
    <<{<<"b","e","a","c","h">>, <<"t","a","r","k","a","r","l","i">>, <<"m","a","l","v","a","n">>},
      {<<"f","o","o","d">>, <<"c","u","i","s","i","n","e">>, <<"m","a","l","v","a","n","i">>},
      {<<"f","o","r","t">>, <<"s","i","n","d","h","u","d","u","r","g">>, <<"h","i","s","t","o","r","y">>},
      {<<"t","i","m","e">>, <<"w","h","e","n">>, <<"s","e","a","s","o","n">>}>>

GroupAnswers == <<BeachAnswer, FoodAnswer, FortAnswer, SeasonAnswer>>

\* the message holds a keyword of group g, letter case ignored
Mentions(msg, g) ==
    \E kw \in KeywordGroups[g] : includes(toLowerCase(msg), kw)

\* C11: getFallbackResponse ignores letter case and answers for the first
\* of the groups beach, food, fort/history, timing/season that has a keyword
\* in the message; without any keyword (the empty message included) it
\* returns the generic message.
C11_FirstGroupWins ==
    (fallbackResponse # NoCall) =>
        LET hits == {g \in 1..4 : Mentions(fallbackArg, g)}
        IN  IF hits = {}
            THEN fallbackResponse = GenericAnswer
            ELSE fallbackResponse =
                    GroupAnswers[CHOOSE g \in hits : \A h \in hits : g <= h]

\* C11 witness: a message in capitals with a food and a fort keyword gets
\* the food answer
C11_Witness ==
    /\ fallbackResponse = FoodAnswer
    /\ Mentions(fallbackArg, 2) /\ Mentions(fallbackArg, 3)
    /\ fallbackArg # toLowerCase(fallbackArg)

\* C12: an OPTIONS request is answered with the three CORS headers and no
\* body; the body is not read, the credential not looked up and the
\* upstream API not called, whatever the credential is.
C12_PreflightAnswer ==
    (req.method = "OPTIONS") =>
        /\ ~bodyRead
        /\ ~keyRead
        /\ fetchCalls = 0
        /\ upstream = NoOutcome
        /\ Responded =>
              /\ resp.headers =
                    {<<"Access-Control-Allow-Origin", "*">>,
                     <<"Access-Control-Allow-Headers",
                       "authorization, x-client-info, apikey, content-type">>,
                     <<"Access-Control-Allow-Methods", "POST, OPTIONS">>}
              /\ ~resp.hasBody
              /\ resp.fields = {}

\* C12 witness: an OPTIONS request that carries a body, answered while the
\* credential is unset
C12_Witness ==
    /\ Responded
    /\ req.method = "OPTIONS"
    /\ req.body.kind = "object"
    /\ GEMINI_API_KEY = Unset
    /\ ~resp.hasBody

\* C13: a request whose method is neither POST nor OPTIONS is answered with
\* status 405 and an error body; the body is not parsed, the credential not
\* looked up and the upstream API not called.
C13_OtherMethods405 ==
    (req.method \notin {"", "POST", "OPTIONS"}) =>
        /\ ~bodyRead
        /\ ~keyRead
        /\ fetchCalls = 0
        /\ Responded =>
              /\ resp.status = 405
              /\ resp.fields = {"error"}
              /\ resp.error # ""

\* C13 witness: a GET request with a body answered 405 under a configured
\* credential
C13_Witness ==
    /\ Responded
    /\ req.method = "GET"
    /\ req.body.kind = "object"
    /\ GEMINI_API_KEY = "AIza-key"
    /\ resp.status = 405

\* an error is raised while the body is parsed, the prompt assembled, the
\* upstream API called or its reply read
ErrorRaised ==
    /\ IsPost
    /\ \/ req.body.kind \in {"invalid", "null"}
       \/ /\ MessagesIsArray
          /\ ~CredentialAbsent
          /\ \E i \in 1..Len(req.body.messages.a) :
                /\ i > Len(req.body.messages.a) - 10
                /\ req.body.messages.a[i].isNull
       \/ upstream.kind = "reject"
       \/ upstream.shape \in {"unreadable", "notjson", "noparts", "emptyparts", "notext"}

\* C14: every error raised in the handler ends in a status-200 body with an
\* error and a non-empty response text; a request being handled can always
\* take its next step, and once answered it has one Response.
C14_NoFailureEscapes ==
    /\ (Responded /\ ErrorRaised) =>
          /\ resp.status = 200
          /\ resp.hasBody
          /\ {"error", "response"} \subseteq resp.fields
          /\ resp.error # ""
          /\ resp.response # <<>>
    /\ Responded => resp.status # 0
    /\ pc \in {"received", "fetch"} => (resp = NoResponse /\ ENABLED Next)

\* C14 witness: the reply without a text part made substring throw, and the
\* catch block answered
C14_Witness ==
    /\ Responded
    /\ upstream.shape = "notext"
    /\ resp.status = 200
    /\ resp.error = "Internal server error"

\* what C17 requires of the fixed parts of the payload
FixedPayloadParts ==
    /\ requestPayload.generationConfig =
          [temperature |-> <<7, 10>>, topK |-> 40, topP |-> <<95, 100>>,
           maxOutputTokens |-> 1024]
    /\ Len(requestPayload.safetySettings) = 4
    /\ {requestPayload.safetySettings[i].category : i \in 1..4} =
          {"HARM_CATEGORY_HARASSMENT", "HARM_CATEGORY_HATE_SPEECH",
           "HARM_CATEGORY_SEXUALLY_EXPLICIT", "HARM_CATEGORY_DANGEROUS_CONTENT"}
    /\ \A i \in 1..4 :
          requestPayload.safetySettings[i].threshold = "BLOCK_MEDIUM_AND_ABOVE"
    /\ requestPayload.contents[1].role = "user"
    /\ requestPayload.contents[2] = [role |-> "model", text |-> GreetingText]

\* the system prompt with and without the location clause
PromptWithLocation == PersonaText \o LocationPrefix \o req.body.userLocation.s \o ClosingText

PromptWithoutLocation == PersonaText \o ClosingText

\* C17 (as claimed): persona, greeting, generationConfig and safetySettings
\* are the same for every request, and the location clause is present
\* exactly when userLocation is a non-empty string.
C17_LocationOnlyForStringAsClaimed ==
    (fetchCalls > 0) =>
        /\ FixedPayloadParts
        /\ requestPayload.contents[1].text =
              IF req.body.userLocation.t = "string" /\ req.body.userLocation.s # <<>>
              THEN PromptWithLocation
              ELSE PromptWithoutLocation

\* C17 (amended): persona, greeting, generationConfig and safetySettings
\* are the same for every request, and the location clause is present
\* exactly when userLocation is truthy: a non-empty string, or a value of
\* another type such as a non-zero number, which is interpolated as text.
C17_FixedPayload ==
    (fetchCalls > 0) =>
        /\ FixedPayloadParts
        /\ requestPayload.contents[1].text =
              IF \/ req.body.userLocation.t = "string" /\ req.body.userLocation.s # <<>>
                 \/ req.body.userLocation.t = "number" /\ req.body.userLocation.s # <<"0">>
              THEN PromptWithLocation
              ELSE PromptWithoutLocation

\* C17 witness: a call whose prompt carries the location clause next to a
\* call-independent greeting
C17_Witness ==
    /\ fetchCalls > 0
    /\ req.body.userLocation = JString(<<"P","u","n","e">>)
    /\ requestPayload.contents[1].text = PromptWithLocation
    /\ Len(requestPayload.contents) > 2

\* the reply of the chat function carries a non-empty response text
HasResponseText(result) ==
    /\ result.data = "object"
    /\ result.response.t = "string"
    /\ result.response.s # <<>>

\* the invocation itself failed
InvocationFailed(result) == result.rejects \/ result.error

\* C16: when the invoke of a send settles with both an error and a
\* non-empty response in the reply, ChatBot appends that response as an
\* assistant message without the error flag, sets connectionStatus to
\* connected and shows no toast; it appends the error notice only when the
\* invocation failed or the reply has no response text.
C16_FallbackReplyIsOrdinary ==
    [][\A i \in DOMAIN sends :
          (sends[i].pc = "invoke" /\ sends'[i].pc # "invoke") =>
              LET result == sends[i].result
              IN  /\ (~InvocationFailed(result) /\ result.dataError
                        /\ HasResponseText(result)) =>
                        /\ chatMessages' =
                              Append(chatMessages,
                                     [role |-> "assistant",
                                      content |-> result.response.s,
                                      error |-> FALSE])
                        /\ connectionStatus' = "connected"
                        /\ lastToast' = lastToast
                  /\ (/\ Len(chatMessages') = Len(chatMessages) + 1
                      /\ chatMessages'[Len(chatMessages')].error) =>
                        (InvocationFailed(result) \/ ~HasResponseText(result))]_vars

\* C16 witness: a reply with error and response was appended as an ordinary
\* message, and the send went on to the chat log
C16_Witness ==
    \E i \in DOMAIN sends :
        /\ sends[i].pc = "getUser"
        /\ sends[i].result.dataError
        /\ sends[i].botResponse = ChatErrorText
        /\ chatMessages[Len(chatMessages)] =
              [role |-> "assistant", content |-> ChatErrorText, error |-> FALSE]
        /\ connectionStatus = "connected"
        /\ lastToast = ""

\* the call sends a row to insert, or the filter of a delete, to the backend
Writes(op) == op.pc \in {"insert", "delete"}

\* the row carries the user that the getUser of the same call returned
CarriesLookedUpUser(op) ==
    /\ op.user \in {"user-1", "user-2"}
    /\ op.row.user_id = op.user

\* C18: every row BookingModal, ReviewModal and FavoriteButton insert (and
\* the filter of the delete) carries as user_id the id of the user that
\* getUser returned in the same call, and no insert or delete is attempted
\* when getUser returned no user.
C18_RowsCarryLookedUpUser ==
    /\ Writes(bookingOp) => CarriesLookedUpUser(bookingOp)
    /\ Writes(reviewOp) => CarriesLookedUpUser(reviewOp)
    /\ \A i \in DOMAIN favoriteOps :
          Writes(favoriteOps[i]) => CarriesLookedUpUser(favoriteOps[i])

\* C18 witness: two toggles in flight whose getUser returned different
\* users, each inserting under its own user
C18_Witness ==
    /\ Len(favoriteOps) = 2
    /\ favoriteOps[1].pc = "insert"
    /\ favoriteOps[2].pc = "insert"
    /\ favoriteOps[1].row.user_id = "user-1"
    /\ favoriteOps[2].row.user_id = "user-2"

\* the row sets exactly one of package_id and tour_package_id, the one of
\* the type, to the id of the package
OneReferenceByType(row) ==
    LET set == DOMAIN row \cap {"package_id", "tour_package_id"}
        wanted == IF packageData.type = "package" THEN "package_id"
                  ELSE "tour_package_id"
    IN  /\ set = {wanted}
        /\ row[wanted] = packageData.id

\* C19: every row built by BookingModal, ReviewModal and FavoriteButton sets
\* exactly one of package_id and tour_package_id: package_id when the type
\* is package, tour_package_id otherwise.
C19_ExactlyOneReference ==
    /\ bookingOp.pc = "insert" => OneReferenceByType(bookingOp.row)
    /\ reviewOp.pc = "insert" => OneReferenceByType(reviewOp.row)
    /\ \A i \in DOMAIN favoriteOps :
          favoriteOps[i].pc = "insert" => OneReferenceByType(favoriteOps[i].row)

\* C19 witness: a review of a tour package being inserted
C19_Witness ==
    /\ reviewOp.pc = "insert"
    /\ packageData.type = "tour_package"
    /\ "tour_package_id" \in DOMAIN reviewOp.row
    /\ "package_id" \notin DOMAIN reviewOp.row

\* C20: every booking row submitted has number_of_people between 1 and 20,
\* total_amount equal to the price times number_of_people and status
\* pending, whatever was entered in the number-of-people field before and
\* after the submit.
C20_BookingRowInRange ==
    (bookingOp.pc = "insert") =>
        /\ bookingOp.row.number_of_people >= 1
        /\ bookingOp.row.number_of_people <= 20
        /\ bookingOp.row.total_amount =
              packageData.price * bookingOp.row.number_of_people
        /\ bookingOp.row.status = "pending"

\* C20 witness: a booking for 20 people being inserted while the field has
\* been changed to 21
C20_Witness ==
    /\ bookingOp.pc = "insert"
    /\ bookingOp.row.number_of_people = 20
    /\ bookingOp.row.total_amount = 20 * 2999
    /\ numberOfPeople = 21

\* a required field of BookingModal is missing
BookingIncomplete == bookingDate = "" \/ contactPhone = "" \/ contactEmail = ""

\* a required field of ReviewModal is missing
ReviewIncomplete == title = "" \/ comment = ""

\* C21: with the date, the phone or the email missing, handleSubmit of
\* BookingModal starts no authentication lookup and no insert and leaves
\* isSubmitting and the form fields as they are; handleSubmit of ReviewModal
\* does the same with the title or the comment missing.  The step of a
\* refused submit is the one that shows the toast Missing Information.
C21_IncompleteFormNotSubmitted ==
    [][/\ (mounted = "BookingModal" /\ BookingIncomplete /\ bookingOp.pc = "idle") =>
              /\ bookingOp'.pc = "idle"
              /\ bookingIsSubmitting' = bookingIsSubmitting
       /\ (mounted = "ReviewModal" /\ ReviewIncomplete /\ reviewOp.pc = "idle") =>
              /\ reviewOp'.pc = "idle"
              /\ reviewIsSubmitting' = reviewIsSubmitting
       /\ (lastToast' = "Missing Information" /\ lastToast # "Missing Information") =>
              /\ IF mounted = "BookingModal" THEN BookingIncomplete ELSE ReviewIncomplete
              /\ <<bookingDate, numberOfPeople, contactPhone, contactEmail,
                   specialRequests>>' =
                 <<bookingDate, numberOfPeople, contactPhone, contactEmail,
                   specialRequests>>
              /\ <<rating, title, comment>>' = <<rating, title, comment>>
              /\ bookingIsSubmitting' = bookingIsSubmitting
              /\ reviewIsSubmitting' = reviewIsSubmitting
              /\ bookingOp' = bookingOp
              /\ reviewOp' = reviewOp]_vars

\* C21 witness: a booking with the email missing was refused; the fields
\* entered are still there and nothing is in flight
C21_Witness ==
    /\ mounted = "BookingModal"
    /\ lastToast = "Missing Information"
    /\ bookingDate # ""
    /\ contactPhone # ""
    /\ contactEmail = ""
    /\ numberOfPeople = 2
    /\ bookingOp.pc = "idle"
    /\ ~bookingIsSubmitting

\* role and content of the last n displayed messages
TrailingOfDisplayed(msgs, n) ==
    [i \in 1..n |-> [role |-> msgs[Len(msgs) - n + i].role,
                     content |-> msgs[Len(msgs) - n + i].content]]

\* C22: every request that handleSendMessage sends carries between 1 and 10
\* messages; they are the last messages of the conversation displayed by
\* that call, in their order, all of them when there are at most 10; the
\* last one is the user message the call has just added.
C22_RequestIsTrailingWindow ==
    [][(Len(sends') = Len(sends) + 1) =>
          LET body == sends'[Len(sends')].body
              shown == chatMessages'
          IN  /\ Len(body) >= 1
              /\ Len(body) <= 10
              /\ Len(body) = IF Len(shown) <= 10 THEN Len(shown) ELSE 10
              /\ body = TrailingOfDisplayed(shown, Len(body))
              /\ body[Len(body)].role = "user"
              /\ body[Len(body)].content = sends'[Len(sends')].question
              /\ shown[Len(shown)].error = FALSE]_vars

\* C22 witness: a request in flight that carries 10 of the 12 messages
\* displayed, the question last
C22_Witness ==
    \E i \in DOMAIN sends :
        /\ sends[i].pc = "invoke"
        /\ Len(sends[i].body) = 10
        /\ Len(chatMessages) = 12
        /\ sends[i].body[1].content = chatMessages[3].content
        /\ sends[i].body[10].content = <<"H","i">>

\* C23: the insert into chat_logs is issued only by a send that obtained a
\* reply and whose getUser returned a user, with that user, the question
\* and the reply; and the end of the chat-log part of a send, by a failed
\* lookup, a missing user or a settled insert, appends no message, leaves
\* connectionStatus and the toast alone and keeps every message displayed.
C23_ChatLogNeverDisturbs ==
    [][\A i \in DOMAIN sends :
          /\ (sends'[i].pc = "insert") =>
                /\ sends[i].pc \in {"getUser", "insert"}
                /\ sends'[i].user \in {"user-1", "user-2"}
                /\ sends'[i].botResponse # <<>>
                /\ sends'[i].result.rejects = FALSE
          /\ (sends[i].pc \in {"getUser", "insert"} /\ sends'[i].pc # sends[i].pc) =>
                /\ chatMessages' = chatMessages
                /\ connectionStatus' = connectionStatus
                /\ lastToast' = lastToast]_vars

\* C23 witness: a chat log being inserted for the logged-in user after the
\* reply was appended
C23_Witness ==
    \E i \in DOMAIN sends :
        /\ sends[i].pc = "insert"
        /\ sends[i].user = "user-2"
        /\ sends[i].botResponse = ChatReplyText
        /\ chatMessages[Len(chatMessages)] =
              [role |-> "assistant", content |-> ChatReplyText, error |-> FALSE]
        /\ connectionStatus = "connected"

\* C24: provided the backend calls settle, a busy flag that is set is
\* cleared again, whichever way the operation ends: isLoading of the chat
\* page, isSubmitting of BookingModal and of ReviewModal, isLoading of
\* FavoriteButton.  One component is on the page, the flags of the others
\* stay clear, so that the flag of the page is cleared again exactly when
\* again and again no flag is set.
C24_BusyFlagsCleared ==
    []<>(/\ ~chatIsLoading
         /\ ~bookingIsSubmitting
         /\ ~reviewIsSubmitting
         /\ ~favoriteIsLoading)

\* C24 witness: handleSubmit of BookingModal has taken the not-logged-in
\* early return and the flag is clear again
C24_Witness ==
    /\ mounted = "BookingModal"
    /\ lastToast = "Authentication Required"
    /\ bookingOp.pc = "idle"
    /\ bookingDate # ""
    /\ ~bookingIsSubmitting

\* C25: at most one invocation of gemini-chat started by handleSendMessage
\* is outstanding at any time.
C25_AtMostOneOutstanding ==
    Cardinality({i \in DOMAIN sends : sends[i].pc = "invoke"}) <= 1

\* C26: once handleQuickQuestion(q) has run (q is in the input field and
\* its timer is pending), a user message with content q is displayed and a
\* send of q is on its way at some later moment.
C26_QuickQuestionIsSent ==
    \A q \in QuickQuestions :
        (timers # <<>> /\ inputMessage = q)
            ~> (/\ \E j \in DOMAIN chatMessages :
                      chatMessages[j] = [role |-> "user", content |-> q,
                                         error |-> FALSE]
                /\ \E i \in DOMAIN sends :
                      sends[i].pc = "invoke" /\ sends[i].question = q)

\* C27: the displayed conversation only grows: every step keeps the
\* messages displayed before it, in place and unchanged, the greeting
\* first, and adds at most one message after them.
C27_ConversationOnlyGrows ==
    [][/\ Len(chatMessages') >= Len(chatMessages)
       /\ Len(chatMessages') <= Len(chatMessages) + 1
       /\ \A j \in DOMAIN chatMessages : chatMessages'[j] = chatMessages[j]
       /\ chatMessages'[1] = [role |-> "assistant", content |-> ChatGreeting,
                              error |-> FALSE]]_vars

====
